---------------------------- MODULE Spec2Model ----------------------------
(***************************************************************************)
(* A model of graffiti_monkey/core.py: GraffitiMonkey.propagate_tags and   *)
(* the two stages it runs, tag_volumes and tag_snapshots, with the retry   *)
(* loop around tag_volume / tag_snapshot and the delta computation of      *)
(* _set_resource_tags.                                                     *)
(*                                                                         *)
(* The EC2 connection (self._conn) is the environment: it holds the remote *)
(* tags of every volume and snapshot, answers the listing calls and either *)
(* applies a create-tags request or fails it with EC2ResponseError or      *)
(* BotoServerError.  The objects a listing returns carry their own copy of *)
(* the tags (resource.tags); that copy is what the code reads and what an  *)
(* assignment "tags_to_set = volume.tags" aliases.                         *)
(*                                                                         *)
(* Lines 109, 125, 216 and 231 of the source miss a colon or use "filters:"*)
(* for "filters ="; they are read as the statements they evidently are.    *)
(***************************************************************************)
EXTENDS Integers, Sequences, FiniteSets, TLC

(***************************************************************************)
(* Bounds of the model.                                                    *)
(***************************************************************************)
NumVolumes == 2
NumSnapshots == 2
MaxFaults == 6
MaxAnomalies == 1

(***************************************************************************)
(* range(5) of the retry loops.                                            *)
(***************************************************************************)
\* A loop that allows one attempt more.
RetryLimit_more == 5 + 1
RetryLimit == 5

VolumeNames == <<"v-1", "v-2", "v-3">>
SnapshotNames == <<"s-1", "s-2", "s-3">>
VolumeIds == {VolumeNames[i] : i \in 1..NumVolumes}
SnapshotIds == {SnapshotNames[i] : i \in 1..NumSnapshots}
InstanceIds == {"i-1"}
\* A volume id the provider no longer knows (the volume was deleted).
GoneVolume == "v-gone"
NoInstance == "None"
ResourceIds == VolumeIds \cup SnapshotIds

(***************************************************************************)
(* Tag sets are Python dicts: functions from a finite set of keys.         *)
(***************************************************************************)
EmptyTags == [k \in {} |-> "x"]
Tag(k, v) == [x \in {k} |-> v]
Merge(a, b) ==
    [k \in DOMAIN a \cup DOMAIN b |-> IF k \in DOMAIN b THEN b[k] ELSE a[k]]
SetItem(d, k, v) == Merge(d, Tag(k, v))

InstanceTagSets ==
    {Tag("env", "prod"), Merge(Tag("env", "prod"), Tag("owner", "ops"))}
ResourceTagSets ==
    {EmptyTags, Merge(Tag("env", "dev"), Tag("owner", "me"))}
AllowLists == {<<"env">>, <<"owner", "env">>}
DevicePath == "/dev/sdf"

VARIABLES
    dryrun, append, novolumes, nosnapshots,
    instance_tags_to_propagate, volume_tags_to_propagate,
    volumes_to_tag, snapshots_to_tag,
    instanceTags,     \* remote: instance id -> tags
    attach,           \* remote: volume id -> [status, instance_id, device]
    snapVolume,       \* remote: snapshot id -> volume id
    taggable,         \* resource id -> is the listed object a TaggedEC2Object
    faultBudget,      \* how many requests the provider fails at most in this run
    remoteTags,       \* remote: volume or snapshot id -> tags
    initTags,         \* remoteTags when the run started
    pc,
    volumes,          \* tag_volumes: the listed volumes, in order
    instances,        \* tag_volumes: instance id -> tags, the parent map
    snapshots,        \* tag_snapshots: the listed snapshots, in order
    parents,          \* tag_snapshots: volume id -> tags, the parent map
    objTags,          \* resource.tags of the listed objects
    idx,              \* this_vol / this_snap
    attempt,          \* the retry loop's variable
    attempts,         \* resource id -> calls of tag_volume / tag_snapshot
    sleeps,           \* resource id -> the durations slept, in order
    results,          \* resource id -> how each call ended, in order
    outcome,          \* resource id -> state of the retry state machine
    writeCalls,       \* resource id -> calls of add_tags
    lastWrite,        \* the last add_tags call
    faults,           \* failures the provider has answered so far
    error,            \* the exception that ended the run, if any
    ownedSnapshots,   \* remote: the snapshots the account owns
    requested,        \* the explicit id lists as the configuration gave them
    calls,            \* the calls on the connection and of time.sleep, in order
    run,              \* which call of propagate_tags this is
    cleanSoFar        \* no resource failed in the earlier call

config == <<dryrun, append, novolumes, nosnapshots,
            instance_tags_to_propagate, volume_tags_to_propagate>>
filters == <<volumes_to_tag, snapshots_to_tag>>
inventory == <<instanceTags, attach, snapVolume, taggable, faultBudget, initTags,
               ownedSnapshots, requested>>
stage == <<volumes, instances, snapshots, parents>>
ghost == <<attempts, sleeps, results, outcome, writeCalls, lastWrite, faults>>
runs == <<run, cleanSoFar>>
vars == <<config, filters, inventory, remoteTags, pc, stage, objTags, idx,
          attempt, ghost, error, calls, runs>>

(***************************************************************************)
(* Pure parts of tag_volume, tag_snapshot and _set_resource_tags.          *)
(***************************************************************************)

\* "for tag_name in <allowlist>: if tag_name in parent_tags:
\*      tags_to_set[tag_name] = parent_tags[tag_name]"
RECURSIVE PropagateTagNames(_, _, _)
PropagateTagNames(tags_to_set, tag_names, parent_tags) ==
    IF tag_names = <<>> THEN tags_to_set
    ELSE LET tag_name == Head(tag_names)
             next == IF tag_name \in DOMAIN parent_tags
                     THEN SetItem(tags_to_set, tag_name, parent_tags[tag_name])
                     ELSE tags_to_set
         IN  PropagateTagNames(next, Tail(tag_names), parent_tags)

\* tags_to_set is {} or, in append mode, the object's own tags dict.
SeedTags(resource_tags) == IF append THEN resource_tags ELSE EmptyTags

\* tag_volume without its two additional tags.
VolumeTagsToSet_no_additional(volume, instance_tags) ==
    PropagateTagNames(SeedTags(objTags[volume]), instance_tags_to_propagate,
                      instance_tags)

\* tag_volume, up to the dry-run test.
VolumeTagsToSet(volume, instance_tags) ==
    LET propagated == PropagateTagNames(SeedTags(objTags[volume]),
                                        instance_tags_to_propagate, instance_tags)
        with_instance == SetItem(propagated, "instance_id", attach[volume].instance_id)
    IN  SetItem(with_instance, "device", attach[volume].device)

\* tag_snapshot copying every tag of the volume, allowlisted or not.
SnapshotTagsToSet_every_tag(snapshot, volume_tags) ==
    Merge(SeedTags(objTags[snapshot]), volume_tags)

\* tag_snapshot, up to the dry-run test.
SnapshotTagsToSet(snapshot, volume_tags) ==
    PropagateTagNames(SeedTags(objTags[snapshot]), volume_tags_to_propagate, volume_tags)

\* A delta that is not reduced: every tag is sent again.
DeltaTags_everything(resource_tags, tags) == tags

\* The delta of _set_resource_tags: the keys of tags that resource.tags lacks
\* or holds with another value.
DeltaTags(resource_tags, tags) ==
    LET keys == {k \in DOMAIN tags :
                    k \notin DOMAIN resource_tags \/ resource_tags[k] # tags[k]}
    IN  [k \in keys |-> tags[k]]

\* What the provider may answer to a create-tags request.
Answers == {"ok", "EC2ResponseError", "BotoServerError"}

NoWrite == [resource |-> "none", delta |-> EmptyTags, tags |-> EmptyTags,
            before |-> EmptyTags]
NoError == [type |-> "none", stage |-> "none"]

\* A _set_resource_tags without the test of lines 300-301: an empty delta is
\* sent too.
SetResourceTags_no_empty_test(r, resource_tags, tags, answer) ==
    LET delta_tags == DeltaTags(resource_tags, tags)
    IN  IF ~taggable[r]
        THEN [raised |-> "GraffitiMonkeyException", tags |-> resource_tags,
              wrote |-> FALSE, delta |-> EmptyTags]
        ELSE [raised |-> IF answer = "ok" THEN "none" ELSE answer,
              tags |-> IF answer = "ok" THEN Merge(resource_tags, delta_tags)
                       ELSE resource_tags,
              wrote |-> TRUE,
              delta |-> delta_tags]

(***************************************************************************)
(* _set_resource_tags(resource, tags), where resource_tags is what         *)
(* resource.tags holds when it is called and `answer` is what the provider *)
(* answers if it is asked.  The result names the exception raised ("none"  *)
(* when the call returns), the object's tags afterwards, and the add_tags  *)
(* call if one was made.  add_tags sends the request first and updates the *)
(* object's tags only when the request did not raise.                      *)
(***************************************************************************)
SetResourceTags(r, resource_tags, tags, answer) ==
    LET delta_tags == DeltaTags(resource_tags, tags)
        quiet == [raised |-> "none", tags |-> resource_tags, wrote |-> FALSE,
                  delta |-> EmptyTags]
    IN  IF ~taggable[r]
        THEN [quiet EXCEPT !.raised = "GraffitiMonkeyException"]
        ELSE IF DOMAIN delta_tags = {} THEN quiet
        ELSE [raised |-> IF answer = "ok" THEN "none" ELSE answer,
              tags |-> IF answer = "ok" THEN Merge(resource_tags, delta_tags)
                       ELSE resource_tags,
              wrote |-> TRUE,
              delta |-> delta_tags]

\* tag_volume / tag_snapshot without the dry-run test.
TagResource_no_dryrun_test(r, tags_to_set, answer) ==
    SetResourceTags(r, IF append THEN tags_to_set ELSE objTags[r], tags_to_set,
                    answer)

(***************************************************************************)
(* The end of tag_volume / tag_snapshot for resource r once tags_to_set is *)
(* accumulated: the dry run only logs.  In append mode tags_to_set is the  *)
(* object's own dict, so by now the object's tags are tags_to_set.         *)
(***************************************************************************)
TagResource(r, tags_to_set, answer) ==
    LET resource_tags == IF append THEN tags_to_set ELSE objTags[r]
    IN  IF dryrun
        THEN [raised |-> "none", tags |-> resource_tags, wrote |-> FALSE,
              delta |-> EmptyTags]
        ELSE SetResourceTags(r, resource_tags, tags_to_set, answer)

(***************************************************************************)
(* The state after GraffitiMonkey.__init__: the configuration as given,    *)
(* the provider's inventory, nothing listed yet.                           *)
(***************************************************************************)
AttachData ==
    {[status |-> "available", instance_id |-> NoInstance, device |-> NoInstance]}
    \cup {[status |-> "in-use", instance_id |-> i, device |-> DevicePath] :
            i \in InstanceIds}

InUse(i) == [status |-> "in-use", instance_id |-> i, device |-> DevicePath]

\* The explicit id lists of the configuration; v-8, v-9 and s-9 are ids the
\* provider does not have.
VolumeFilters == {<<>>, <<"v-1">>, <<"v-9">>, <<"v-9", "v-1">>, <<"v-8", "v-9", "v-2">>}
SnapshotFilters == {<<>>, <<"s-1">>, <<"s-9", "s-2">>}

\* The plain inventory: every volume in use and untagged, snapshot k taken of
\* volume k, every listed object taggable.
PlainParent == [sn \in SnapshotIds |->
                   LET k == CHOOSE i \in 1..NumSnapshots : SnapshotNames[i] = sn
                   IN  VolumeNames[IF k <= NumVolumes THEN k ELSE NumVolumes]]
\* Which volume each snapshot was taken of: its own, or all of the first.
ParentMaps == {PlainParent, [sn \in SnapshotIds |-> VolumeNames[1]]}
\* The same with the volumes of the snapshots in gone deleted since.
WithGone(sv, gone) == [sn \in SnapshotIds |-> IF sn \in gone THEN GoneVolume ELSE sv[sn]]
AllTaggable == [r \in ResourceIds |-> TRUE]
\* At most MaxAnomalies things are wrong with the inventory: a listed object
\* that is no TaggedEC2Object, a snapshot whose volume is gone.
Anomalies(tg, sv) ==
    Cardinality({r \in ResourceIds : ~tg[r]})
    + Cardinality({sn \in SnapshotIds : sv[sn] = GoneVolume})

\* Runs that differ in what is propagated: flags, allowlists, tags, attachments.
InitTagging ==
    /\ dryrun \in BOOLEAN
    /\ append \in BOOLEAN
    /\ novolumes = FALSE
    /\ nosnapshots = FALSE
    /\ instance_tags_to_propagate \in AllowLists
    /\ volume_tags_to_propagate \in AllowLists
    /\ volumes_to_tag = <<>>
    /\ snapshots_to_tag = <<>>
    /\ instanceTags \in [InstanceIds -> InstanceTagSets]
    /\ attach \in [VolumeIds -> AttachData]
    /\ snapVolume \in ParentMaps
    /\ taggable = AllTaggable
    /\ remoteTags \in [ResourceIds -> ResourceTagSets]
    /\ faultBudget = 0
    /\ ownedSnapshots = SnapshotIds

\* Runs that differ in what goes wrong: the provider's failures, objects of the
\* wrong type, volumes that are gone; and in the stages that are run.
InitFailing ==
    /\ dryrun = FALSE
    /\ append = FALSE
    /\ novolumes \in BOOLEAN
    /\ nosnapshots \in BOOLEAN
    /\ instance_tags_to_propagate = <<"env">>
    /\ volume_tags_to_propagate = <<"env">>
    /\ volumes_to_tag = <<>>
    /\ snapshots_to_tag = <<>>
    /\ instanceTags = [i \in InstanceIds |-> Tag("env", "prod")]
    /\ attach \in [VolumeIds -> AttachData]
    /\ snapVolume \in {WithGone(PlainParent, gone) : gone \in SUBSET SnapshotIds}
    /\ taggable \in [ResourceIds -> BOOLEAN]
    /\ Anomalies(taggable, snapVolume) <= MaxAnomalies
    /\ remoteTags = [r \in ResourceIds |-> EmptyTags]
    /\ faultBudget = MaxFaults
    /\ ownedSnapshots = SnapshotIds

\* Runs that differ in the explicit id lists and in whether the account owns
\* any snapshot.
InitFiltered ==
    /\ dryrun \in BOOLEAN
    /\ append = FALSE
    /\ novolumes \in BOOLEAN
    /\ nosnapshots \in BOOLEAN
    /\ instance_tags_to_propagate = <<"env">>
    /\ volume_tags_to_propagate = <<"env">>
    /\ volumes_to_tag \in VolumeFilters
    /\ snapshots_to_tag \in SnapshotFilters
    /\ instanceTags = [i \in InstanceIds |-> Tag("env", "prod")]
    /\ attach = [v \in VolumeIds |-> InUse("i-1")]
    /\ snapVolume = PlainParent
    /\ taggable = AllTaggable
    /\ remoteTags = [r \in ResourceIds |-> EmptyTags]
    /\ faultBudget = 0
    /\ ownedSnapshots \in {SnapshotIds, {}}

Init ==
    /\ InitTagging \/ InitFailing \/ InitFiltered
    /\ initTags = remoteTags
    /\ pc = "start"
    /\ volumes = <<>>
    /\ instances = EmptyTags
    /\ snapshots = <<>>
    /\ parents = EmptyTags
    /\ objTags = [r \in ResourceIds |-> EmptyTags]
    /\ idx = 0
    /\ attempt = 0
    /\ attempts = [r \in ResourceIds |-> 0]
    /\ sleeps = [r \in ResourceIds |-> <<>>]
    /\ results = [r \in ResourceIds |-> <<>>]
    /\ outcome = [r \in ResourceIds |-> "None"]
    /\ writeCalls = [r \in ResourceIds |-> 0]
    /\ lastWrite = NoWrite
    /\ faults = 0
    /\ error = NoError
    /\ requested = [volumes |-> volumes_to_tag, snapshots |-> snapshots_to_tag]
    /\ calls = <<>>
    /\ run = "first"
    /\ cleanSoFar = TRUE

(***************************************************************************)
(* propagate_tags                                                          *)
(***************************************************************************)
\* One entry of calls: the stage that made the call, the function called and
\* the ids it was given.
Call(stage_name, op, ids) == [stage |-> stage_name, op |-> op, ids |-> ids]

\* A propagate_tags that runs tag_snapshots whatever _nosnapshots says.
AfterVolumes_always_snapshots == "tag_snapshots"

\* Where propagate_tags goes once tag_volumes has returned, or was not run.
AfterVolumes == IF ~nosnapshots THEN "tag_snapshots" ELSE "done"

PropagateTags ==
    /\ pc = "start"
    /\ pc' = IF ~novolumes THEN "tag_volumes" ELSE AfterVolumes
    /\ UNCHANGED <<config, runs, filters, inventory, remoteTags, stage, objTags, idx,
                   attempt, ghost, error, calls>>

(***************************************************************************)
(* tag_volumes                                                             *)
(***************************************************************************)
Range(seq) == {seq[i] : i \in 1..Len(seq)}

\* list.remove(x): drops the first occurrence of x.
RECURSIVE ListRemove(_, _)
ListRemove(lst, x) ==
    IF lst = <<>> THEN lst
    ELSE IF Head(lst) = x THEN Tail(lst)
    ELSE <<Head(lst)>> \o ListRemove(Tail(lst), x)

\* "for id in lst: if id not in ids: lst.remove(id)": the for loop walks the
\* list by position while remove shortens it.
RECURSIVE ValidateIds(_, _, _)
ValidateIds(lst, i, ids) ==
    IF i > Len(lst) THEN lst
    ELSE IF lst[i] \notin ids THEN ValidateIds(ListRemove(lst, lst[i]), i + 1, ids)
    ELSE ValidateIds(lst, i + 1, ids)

\* The provider's answer to get_all_volumes, in its own order.
ProviderVolumes(id_filter) ==
    SelectSeq([i \in 1..NumVolumes |-> VolumeNames[i]],
              LAMBDA v : id_filter = <<>> \/ v \in Range(id_filter))

\* Lines 117-119 and 223-225: "if not volumes: return True".
AfterListing(listed, return, fetch) == IF listed = <<>> THEN return ELSE fetch

\* Lines 98-119: list, validate the explicit ids, return when nothing is found.
ListVolumes ==
    /\ pc = "tag_volumes"
    /\ LET listed == ProviderVolumes(volumes_to_tag)
       IN  /\ volumes' = listed
           /\ volumes_to_tag' = ValidateIds(volumes_to_tag, 1, Range(listed))
           /\ objTags' = [r \in ResourceIds |->
                            IF r \in Range(listed) THEN remoteTags[r] ELSE objTags[r]]
           /\ pc' = AfterListing(listed, AfterVolumes, "get_all_instances")
    /\ calls' = Append(calls, Call("volumes", "get_all_volumes", Range(volumes_to_tag)))
    /\ UNCHANGED <<config, runs, snapshots_to_tag, inventory, remoteTags, instances,
                   snapshots, parents, idx, attempt, ghost, error>>

\* Lines 123-134: one bulk fetch of the instances the listed volumes name.
GetAllInstances ==
    /\ pc = "get_all_instances"
    /\ LET all_instance_ids == {attach[v].instance_id : v \in Range(volumes)}
       IN  /\ instances' = [i \in all_instance_ids \cap InstanceIds |-> instanceTags[i]]
           /\ calls' = Append(calls, Call("volumes", "get_all_instances", all_instance_ids))
    /\ idx' = 0
    /\ pc' = "volume_loop"
    /\ UNCHANGED <<config, runs, filters, inventory, remoteTags, volumes, snapshots,
                   parents, objTags, attempt, ghost, error>>

\* A loop that tags every volume, attached or not.
IsAttached_always(volume) == TRUE

\* Line 140: only a volume that is in use is tagged.
IsAttached(volume) == attach[volume].status = "in-use"

\* Lines 135-142: the next volume; one that is not in use is skipped.
NextVolume ==
    /\ pc = "volume_loop"
    /\ idx < Len(volumes)
    /\ idx' = idx + 1
    /\ LET volume == volumes[idx + 1]
       IN  IF ~IsAttached(volume)
           THEN /\ outcome' = [outcome EXCEPT ![volume] = "Skipped"]
                /\ UNCHANGED <<pc, attempt>>
           ELSE /\ attempt' = 0
                /\ pc' = "tag_volume"
                /\ UNCHANGED outcome
    /\ UNCHANGED <<config, runs, filters, inventory, remoteTags, stage, objTags,
                   attempts, sleeps, results, writeCalls, lastWrite, faults, error,
                   calls>>

\* Lines 159-160: the loop is over, tag_volumes returns.
VolumesDone ==
    /\ pc = "volume_loop"
    /\ idx = Len(volumes)
    /\ pc' = AfterVolumes
    /\ UNCHANGED <<config, runs, filters, inventory, remoteTags, stage, objTags, idx,
                   attempt, ghost, error, calls>>

\* Handlers whose success path lacks the "else: break": the loop goes on.
AfterCall_no_break(raised, loop, sleep) ==
    CASE raised = "none" -> [pc |-> sleep, outcome |-> "Success"]
      [] raised = "EC2ResponseError" -> [pc |-> loop, outcome |-> "PermanentFailure"]
      [] raised = "BotoServerError" -> [pc |-> sleep, outcome |-> "None"]
      [] OTHER -> [pc |-> "crashed", outcome |-> "None"]

\* Handlers in the other order: BotoServerError, the base class, catches
\* EC2ResponseError too, which is then retried.
AfterCall_base_class_first(raised, loop, sleep) ==
    CASE raised = "none" -> [pc |-> loop, outcome |-> "Success"]
      [] raised \in {"EC2ResponseError", "BotoServerError"} ->
            [pc |-> sleep, outcome |-> "None"]
      [] OTHER -> [pc |-> "crashed", outcome |-> "None"]

(***************************************************************************)
(* The retry loop's handlers, lines 147-154 and 248-255: where control     *)
(* goes after a call that raised `raised`, and what the resource's state   *)
(* is then.  Any exception but the two boto ones leaves the loop, the      *)
(* stage and propagate_tags.                                               *)
(***************************************************************************)
AfterCall(raised, loop, sleep) ==
    CASE raised = "none" -> [pc |-> loop, outcome |-> "Success"]
      [] raised = "EC2ResponseError" -> [pc |-> loop, outcome |-> "PermanentFailure"]
      [] raised = "BotoServerError" -> [pc |-> sleep, outcome |-> "None"]
      [] OTHER -> [pc |-> "crashed", outcome |-> "None"]

\* A handler that sleeps for the number of the failed attempt, counted from 1.
Backoff_from_one(n) == n + 1

\* time.sleep(attempt)
Backoff(n) == n

\* A provider whose create-tags request replaces the tags of the resource.
AddTags_replacing(remote_tags, delta_tags) == delta_tags

\* Line 303, resource.add_tags(delta_tags): the provider sets the keys of the
\* request and leaves every other tag of the resource as it is.
AddTags(remote_tags, delta_tags) == Merge(remote_tags, delta_tags)

\* One pass of the loop body on resource r with accumulated tags tags_to_set.
Attempt(r, tags_to_set, stage_name, loop, sleep) ==
    \E answer \in Answers :
        LET call == TagResource(r, tags_to_set, answer)
            next == AfterCall(call.raised, loop, sleep)
        IN  /\ answer # "ok" => (call.wrote /\ faults < faultBudget)
            /\ objTags' = [objTags EXCEPT ![r] = call.tags]
            /\ remoteTags' = IF call.wrote /\ call.raised = "none"
                             THEN [remoteTags EXCEPT ![r] = AddTags(@, call.delta)]
                             ELSE remoteTags
            /\ writeCalls' = [writeCalls EXCEPT ![r] = @ + (IF call.wrote THEN 1 ELSE 0)]
            /\ calls' = IF call.wrote
                        THEN Append(calls, Call(stage_name, "add_tags", {r}))
                        ELSE calls
            /\ lastWrite' = IF call.wrote
                            THEN [resource |-> r, delta |-> call.delta,
                                  tags |-> tags_to_set, before |-> remoteTags[r]]
                            ELSE lastWrite
            /\ faults' = faults + (IF answer = "ok" THEN 0 ELSE 1)
            /\ attempts' = [attempts EXCEPT ![r] = @ + 1]
            /\ results' = [results EXCEPT ![r] = Append(@, call.raised)]
            /\ outcome' = [outcome EXCEPT ![r] = next.outcome]
            /\ pc' = next.pc
            /\ error' = IF next.pc = "crashed"
                        THEN [type |-> call.raised, stage |-> stage_name]
                        ELSE error

\* Lines 144-154 with tag_volume: instances[instance_id] raises KeyError when
\* the instance was not returned.
TagVolume ==
    /\ pc = "tag_volume"
    /\ LET volume == volumes[idx]
           instance_id == attach[volume].instance_id
       IN  IF instance_id \notin DOMAIN instances
           THEN /\ pc' = "crashed"
                /\ error' = [type |-> "KeyError", stage |-> "volumes"]
                /\ attempts' = [attempts EXCEPT ![volume] = @ + 1]
                /\ results' = [results EXCEPT ![volume] = Append(@, "KeyError")]
                /\ UNCHANGED <<objTags, remoteTags, writeCalls, lastWrite, faults,
                               outcome, calls>>
           ELSE Attempt(volume, VolumeTagsToSet(volume, instances[instance_id]),
                        "volumes", "volume_loop", "volume_sleep")
    /\ UNCHANGED <<config, runs, filters, inventory, stage, idx, attempt, sleeps>>

\* Lines 150-157: the BotoServerError handler sleeps, the loop takes the next
\* value of range(5) or, when there is none, its else branch.
VolumeSleep ==
    /\ pc = "volume_sleep"
    /\ LET volume == volumes[idx]
       IN  /\ sleeps' = [sleeps EXCEPT ![volume] = Append(@, Backoff(attempt))]
           /\ calls' = Append(calls, Call("volumes", "sleep", {volume}))
           /\ IF attempt + 1 < RetryLimit
              THEN /\ attempt' = attempt + 1
                   /\ pc' = "tag_volume"
                   /\ UNCHANGED outcome
              ELSE /\ outcome' = [outcome EXCEPT ![volume] = "ExhaustedFailure"]
                   /\ pc' = "volume_loop"
                   /\ UNCHANGED attempt
    /\ UNCHANGED <<config, runs, filters, inventory, remoteTags, stage, objTags, idx,
                   attempts, results, writeCalls, lastWrite, faults, error>>

(***************************************************************************)
(* tag_snapshots                                                           *)
(***************************************************************************)
\* The provider's answer to get_all_snapshots(owner = 'self'), in its own order.
ProviderSnapshots(id_filter) ==
    SelectSeq([i \in 1..NumSnapshots |-> SnapshotNames[i]],
              LAMBDA sn : /\ sn \in ownedSnapshots
                          /\ id_filter = <<>> \/ sn \in Range(id_filter))

\* Lines 199-225.  With an explicit id list the validation loop's first test
\* reads volume_id and volume_ids, names tag_snapshots never binds: NameError.
ListSnapshots ==
    /\ pc = "tag_snapshots"
    /\ LET listed == ProviderSnapshots(snapshots_to_tag)
       IN  /\ snapshots' = listed
           /\ objTags' = [r \in ResourceIds |->
                            IF r \in Range(listed) THEN remoteTags[r] ELSE objTags[r]]
           /\ IF snapshots_to_tag # <<>>
              THEN /\ pc' = "crashed"
                   /\ error' = [type |-> "NameError", stage |-> "snapshots"]
              ELSE /\ pc' = AfterListing(listed, "done", "get_all_volumes")
                   /\ UNCHANGED error
    /\ calls' = Append(calls, Call("snapshots", "get_all_snapshots",
                                   Range(snapshots_to_tag)))
    /\ UNCHANGED <<config, runs, filters, inventory, remoteTags, volumes, instances,
                   parents, idx, attempt, ghost>>

\* A fetch that answers with the tags the volumes had when the run started.
FetchVolumes_as_at_start(volume_ids) ==
    [v \in volume_ids \cap VolumeIds |-> initTags[v]]

\* Lines 230-235, get_all_volumes(filters = volume-id): the volumes of these
\* ids the provider has, with the tags they have now.
FetchVolumes(volume_ids) ==
    [v \in volume_ids \cap VolumeIds |-> remoteTags[v]]

\* Lines 229-240: one bulk fetch of the volumes the listed snapshots name; a
\* volume the provider no longer has is not in the answer.
GetParentVolumes ==
    /\ pc = "get_all_volumes"
    /\ LET all_volume_ids == {snapVolume[sn] : sn \in Range(snapshots)}
       IN  /\ parents' = FetchVolumes(all_volume_ids)
           /\ calls' = Append(calls, Call("snapshots", "get_all_volumes", all_volume_ids))
    /\ idx' = 0
    /\ pc' = "snapshot_loop"
    /\ UNCHANGED <<config, runs, filters, inventory, remoteTags, volumes, instances,
                   snapshots, objTags, attempt, ghost, error>>

\* Lines 242-245: the next snapshot.
NextSnapshot ==
    /\ pc = "snapshot_loop"
    /\ idx < Len(snapshots)
    /\ idx' = idx + 1
    /\ attempt' = 0
    /\ pc' = "tag_snapshot"
    /\ UNCHANGED <<config, runs, filters, inventory, remoteTags, stage, objTags,
                   ghost, error, calls>>

\* Line 259: the loop is over, tag_snapshots and propagate_tags return.
SnapshotsDone ==
    /\ pc = "snapshot_loop"
    /\ idx = Len(snapshots)
    /\ pc' = "done"
    /\ UNCHANGED <<config, runs, filters, inventory, remoteTags, stage, objTags, idx,
                   attempt, ghost, error, calls>>

\* Lines 245-255 with tag_snapshot: volumes[volume_id] raises KeyError when the
\* volume was not returned.
TagSnapshot ==
    /\ pc = "tag_snapshot"
    /\ LET snapshot == snapshots[idx]
           volume_id == snapVolume[snapshot]
       IN  IF volume_id \notin DOMAIN parents
           THEN /\ pc' = "crashed"
                /\ error' = [type |-> "KeyError", stage |-> "snapshots"]
                /\ attempts' = [attempts EXCEPT ![snapshot] = @ + 1]
                /\ results' = [results EXCEPT ![snapshot] = Append(@, "KeyError")]
                /\ UNCHANGED <<objTags, remoteTags, writeCalls, lastWrite, faults,
                               outcome, calls>>
           ELSE Attempt(snapshot, SnapshotTagsToSet(snapshot, parents[volume_id]),
                        "snapshots", "snapshot_loop", "snapshot_sleep")
    /\ UNCHANGED <<config, runs, filters, inventory, stage, idx, attempt, sleeps>>

\* Lines 251-258.
SnapshotSleep ==
    /\ pc = "snapshot_sleep"
    /\ LET snapshot == snapshots[idx]
       IN  /\ sleeps' = [sleeps EXCEPT ![snapshot] = Append(@, Backoff(attempt))]
           /\ calls' = Append(calls, Call("snapshots", "sleep", {snapshot}))
           /\ IF attempt + 1 < RetryLimit
              THEN /\ attempt' = attempt + 1
                   /\ pc' = "tag_snapshot"
                   /\ UNCHANGED outcome
              ELSE /\ outcome' = [outcome EXCEPT ![snapshot] = "ExhaustedFailure"]
                   /\ pc' = "snapshot_loop"
                   /\ UNCHANGED attempt
    /\ UNCHANGED <<config, runs, filters, inventory, remoteTags, stage, objTags, idx,
                   attempts, results, writeCalls, lastWrite, faults, error>>

Next ==
    \/ PropagateTags
    \/ ListVolumes
    \/ GetAllInstances
    \/ NextVolume
    \/ VolumesDone
    \/ TagVolume
    \/ VolumeSleep
    \/ ListSnapshots
    \/ GetParentVolumes
    \/ NextSnapshot
    \/ SnapshotsDone
    \/ TagSnapshot
    \/ SnapshotSleep

Spec == Init /\ [][Next]_vars

(***************************************************************************)
(* The next scheduled run: a GraffitiMonkey constructed from the same      *)
(* configuration, and propagate_tags called on it.  Nothing of the run     *)
(* that returned is left but the provider's state.                         *)
(***************************************************************************)
RunAgain ==
    /\ pc = "done"
    /\ run = "first"
    /\ run' = "second"
    /\ cleanSoFar' = \A r \in ResourceIds : outcome[r] \in {"None", "Success", "Skipped"}
    /\ pc' = "start"
    /\ initTags' = remoteTags
    /\ volumes' = <<>>
    /\ instances' = EmptyTags
    /\ snapshots' = <<>>
    /\ parents' = EmptyTags
    /\ objTags' = [r \in ResourceIds |-> EmptyTags]
    /\ idx' = 0
    /\ attempt' = 0
    /\ attempts' = [r \in ResourceIds |-> 0]
    /\ sleeps' = [r \in ResourceIds |-> <<>>]
    /\ results' = [r \in ResourceIds |-> <<>>]
    /\ outcome' = [r \in ResourceIds |-> "None"]
    /\ writeCalls' = [r \in ResourceIds |-> 0]
    /\ lastWrite' = NoWrite
    /\ calls' = <<>>
    /\ volumes_to_tag' = requested.volumes
    /\ snapshots_to_tag' = requested.snapshots
    /\ UNCHANGED <<config, instanceTags, attach, snapVolume, taggable,
                   faultBudget, ownedSnapshots, requested, remoteTags, faults, error>>

NextTwice == Next \/ RunAgain

SpecTwice == Init /\ [][NextTwice]_vars

(***************************************************************************)
(* Properties.                                                             *)
(***************************************************************************)
Repeat(x, n) == [i \in 1..n |-> x]
IsPrefix(p, q) == Len(p) <= Len(q) /\ SubSeq(q, 1, Len(p)) = p

InVolumeLoop ==
    \/ pc \in {"volume_loop", "tag_volume", "volume_sleep"}
    \/ pc = "crashed" /\ error.stage = "volumes"
InSnapshotLoop ==
    \/ pc \in {"snapshot_loop", "tag_snapshot", "snapshot_sleep"}
    \/ pc = "crashed" /\ error.stage = "snapshots" /\ error.type # "NameError"
\* r is the resource the stage loop is at.
Current(r) ==
    \/ InVolumeLoop /\ idx \in 1..Len(volumes) /\ volumes[idx] = r
    \/ InSnapshotLoop /\ idx \in 1..Len(snapshots) /\ snapshots[idx] = r
LoopHead(r) == IF r \in VolumeIds THEN "volume_loop" ELSE "snapshot_loop"
SleepOf(r) == IF r \in VolumeIds THEN "volume_sleep" ELSE "snapshot_sleep"
\* The stage loop has left r behind or stands at its head, ready for the next
\* resource.
LoopGoesOn(r) == Current(r) => pc = LoopHead(r)
Processed(r) == attempts[r] >= 1 \/ outcome[r] = "Skipped"

\* C1: in a dry run no add_tags call is made for any resource and the remote
\* tags of every resource stay what they were when the run started.
DryRunNeverWrites ==
    dryrun => /\ \A r \in ResourceIds : writeCalls[r] = 0
              /\ lastWrite = NoWrite
              /\ remoteTags = initTags

\* A dry run in append mode has gone through both stages; the tags it would
\* have set on v-1 differ from the ones v-1 has.
DryRunWitness ==
    /\ dryrun /\ append /\ pc = "done"
    /\ outcome["v-1"] = "Success" /\ outcome["s-1"] = "Success"
    /\ objTags["v-1"] # remoteTags["v-1"]

\* C2: a resource whose first k calls (k < 5) end in BotoServerError and whose
\* next call returns has been called k+1 times and no more, has slept k times
\* and is in Success.
RetryThenSuccess ==
    \A r \in ResourceIds : \A k \in 0..4 :
        IsPrefix(Repeat("BotoServerError", k) \o <<"none">>, results[r])
        => /\ attempts[r] = k + 1
           /\ Len(sleeps[r]) = k
           /\ outcome[r] = "Success"

\* v-1 succeeded on its fifth call, s-2 on its second, v-2 on its first.
RetryThenSuccessWitness ==
    /\ pc = "done"
    /\ results["v-1"] = Repeat("BotoServerError", 4) \o <<"none">>
    /\ results["v-2"] = <<"none">>
    /\ results["s-2"] = <<"BotoServerError", "none">>
    /\ writeCalls["v-1"] = 5

\* C3: no resource is called more than 5 times; one whose first 5 calls all
\* end in BotoServerError is called exactly 5 times and ends in
\* ExhaustedFailure, with the stage loop at its head for the next resource.
RetryExhaustion ==
    \A r \in ResourceIds :
        /\ attempts[r] <= 5
        /\ IsPrefix(Repeat("BotoServerError", 5), results[r])
           => /\ attempts[r] = 5
              /\ \/ Current(r) /\ pc = SleepOf(r) /\ outcome[r] = "None"
                 \/ outcome[r] = "ExhaustedFailure" /\ LoopGoesOn(r)

\* v-1 was given up after 5 calls and v-2, the next volume, was tagged.
RetryExhaustionWitness ==
    /\ pc = "done"
    /\ outcome["v-1"] = "ExhaustedFailure"
    /\ attempts["v-1"] = 5
    /\ outcome["v-2"] = "Success"
    /\ writeCalls["v-2"] = 1

\* C4: a call that ends in EC2ResponseError is the last call on its resource:
\* as the n-th call it leaves n calls and the n-1 sleeps of the earlier
\* retries, the resource in PermanentFailure and the stage loop at its head.
PermanentFailureStops ==
    \A r \in ResourceIds : \A n \in 1..Len(results[r]) :
        results[r][n] = "EC2ResponseError"
        => /\ Len(results[r]) = n
           /\ attempts[r] = n
           /\ Len(sleeps[r]) = n - 1
           /\ outcome[r] = "PermanentFailure"
           /\ LoopGoesOn(r)

\* v-1 failed permanently on its first call, s-2 on its third, and the
\* resources after v-1 were tagged.
PermanentFailureWitness ==
    /\ pc = "done"
    /\ results["v-1"] = <<"EC2ResponseError">>
    /\ sleeps["v-1"] = <<>>
    /\ outcome["v-2"] = "Success"
    /\ results["s-2"] = <<"BotoServerError", "BotoServerError", "EC2ResponseError">>

\* C5: when the run is over, every volume that was listed and every snapshot
\* that was listed has been called or skipped.  (The NameError of the
\* snapshot id validation is raised before the snapshot loop is entered.)
SiblingIsolation ==
    pc \in {"done", "crashed"}
    => /\ \A v \in Range(volumes) : Processed(v)
       /\ error.type # "NameError" => \A sn \in Range(snapshots) : Processed(sn)

\* C6: an add_tags call carries a delta that is not empty and holds exactly
\* the keys of the accumulated tags that the resource lacks or holds with
\* another value, each with the accumulated value; a call of tag_volume or
\* tag_snapshot makes at most one add_tags call.
MinimalWrites ==
    /\ \A r \in ResourceIds : writeCalls[r] <= attempts[r]
    /\ lastWrite.resource # "none"
       => /\ DOMAIN lastWrite.delta # {}
          /\ \A k \in DOMAIN lastWrite.tags \cup DOMAIN lastWrite.delta :
                /\ k \in DOMAIN lastWrite.delta
                   <=> /\ k \in DOMAIN lastWrite.tags
                       /\ \/ k \notin DOMAIN lastWrite.before
                          \/ lastWrite.before[k] # lastWrite.tags[k]
                /\ k \in DOMAIN lastWrite.delta
                   => lastWrite.delta[k] = lastWrite.tags[k]

\* A write that left out a tag the resource already had with the right value.
MinimalWritesWitness ==
    /\ lastWrite.resource # "none"
    /\ DOMAIN lastWrite.delta # DOMAIN lastWrite.tags
    /\ DOMAIN lastWrite.delta # {}

\* The tags resource r is meant to get from parent tags parent_tags under
\* the allowlist tag_names: the allowlisted tags the parent carries.
Inherited(tag_names, parent_tags) ==
    [t \in Range(tag_names) \cap DOMAIN parent_tags |-> parent_tags[t]]

\* C7: in append mode without dry run, a resource that was tagged without
\* error and whose parent carries an allowlisted tag that the resource lacked
\* or held with another value got exactly one add_tags call and now holds
\* the parent's value.
AppendStillPropagates ==
    (append /\ ~dryrun)
    => /\ \A v \in VolumeIds :
            outcome[v] = "Success"
            => LET want == Inherited(instance_tags_to_propagate,
                                     instanceTags[attach[v].instance_id])
               IN  \A t \in DOMAIN want :
                      (t \notin DOMAIN initTags[v] \/ initTags[v][t] # want[t])
                      => /\ writeCalls[v] = 1
                         /\ t \in DOMAIN remoteTags[v]
                         /\ remoteTags[v][t] = want[t]
       /\ \A sn \in SnapshotIds :
            outcome[sn] = "Success"
            => LET want == Inherited(volume_tags_to_propagate,
                                     remoteTags[snapVolume[sn]])
               IN  \A t \in DOMAIN want :
                      (t \notin DOMAIN initTags[sn] \/ initTags[sn][t] # want[t])
                      => /\ writeCalls[sn] = 1
                         /\ t \in DOMAIN remoteTags[sn]
                         /\ remoteTags[sn][t] = want[t]

\* C8: with append and dry run off, a volume that was tagged without error
\* holds its previous tags, overlaid with the allowlisted tags its instance
\* carries, with instance_id and with device.
VolumeExpected(v) ==
    LET want == Inherited(instance_tags_to_propagate,
                          instanceTags[attach[v].instance_id])
        keys == DOMAIN initTags[v] \cup DOMAIN want \cup {"instance_id", "device"}
    IN  [k \in keys |->
            IF k = "instance_id" THEN attach[v].instance_id
            ELSE IF k = "device" THEN attach[v].device
            ELSE IF k \in DOMAIN want THEN want[k]
            ELSE initTags[v][k]]

VolumeEndState ==
    (~append /\ ~dryrun)
    => \A v \in VolumeIds :
          outcome[v] = "Success"
          => /\ attach[v].status = "in-use"
             /\ remoteTags[v] = VolumeExpected(v)

\* The example: untagged v-1 on i-1 {env: prod}, allowlist [env].
VolumeEndStateWitness ==
    /\ ~append /\ ~dryrun /\ pc = "done"
    /\ instance_tags_to_propagate = <<"env">>
    /\ instanceTags["i-1"] = Tag("env", "prod")
    /\ initTags["v-1"] = EmptyTags
    /\ outcome["v-1"] = "Success"
    /\ remoteTags["v-1"] = [env |-> "prod", instance_id |-> "i-1",
                            device |-> DevicePath]
    /\ initTags["v-2"] # EmptyTags
    /\ outcome["v-2"] = "Success"

\* C9: with append and dry run off, a snapshot that was tagged without error
\* holds its previous tags overlaid with the allowlisted tags its volume
\* carries, and nothing else.
SnapshotExpected(sn) ==
    LET want == Inherited(volume_tags_to_propagate, remoteTags[snapVolume[sn]])
    IN  [k \in DOMAIN initTags[sn] \cup DOMAIN want |->
            IF k \in DOMAIN want THEN want[k] ELSE initTags[sn][k]]

SnapshotEndState ==
    (~append /\ ~dryrun)
    => \A sn \in SnapshotIds :
          outcome[sn] = "Success" => remoteTags[sn] = SnapshotExpected(sn)

\* The example: untagged s-1 of v-1, which carries env: prod besides
\* instance_id, device and owner; allowlist [env].
SnapshotEndStateWitness ==
    /\ ~append /\ ~dryrun /\ pc = "done"
    /\ volume_tags_to_propagate = <<"env">>
    /\ snapVolume["s-1"] = "v-1"
    /\ initTags["s-1"] = EmptyTags
    /\ outcome["s-1"] = "Success"
    /\ {"env", "owner", "instance_id", "device"} \subseteq DOMAIN remoteTags["v-1"]
    /\ remoteTags["v-1"]["env"] = "prod"
    /\ remoteTags["s-1"] = Tag("env", "prod")

\* C10: a volume that is not in use is never passed to tag_volume, gets no
\* add_tags call and keeps the tags it had when the run started.
NonAttachedUntouched ==
    \A v \in VolumeIds :
        attach[v].status # "in-use"
        => /\ attempts[v] = 0
           /\ writeCalls[v] = 0
           /\ remoteTags[v] = initTags[v]
           /\ outcome[v] \in {"None", "Skipped"}

\* v-1 is available and was skipped, v-2 after it was tagged.
NonAttachedWitness ==
    /\ pc = "done" /\ ~dryrun /\ ~append
    /\ attach["v-1"].status = "available"
    /\ outcome["v-1"] = "Skipped"
    /\ initTags["v-1"] # EmptyTags
    /\ writeCalls["v-2"] = 1


\* The keys the stage of resource r may set: its allowlist and, on a volume,
\* the two tags tag_volume adds.
StageKeys(r) ==
    IF r \in VolumeIds
    THEN Range(instance_tags_to_propagate) \cup {"instance_id", "device"}
    ELSE Range(volume_tags_to_propagate)

\* C11: on every resource a tag key outside the stage's allowlist (and, on a
\* volume, other than instance_id and device) has the value it had when the
\* run started, or is absent as it was then, in append and in replace mode;
\* no key a resource had is removed and no add_tags call carries such a key.
UntouchedTagsSurvive ==
    /\ \A r \in ResourceIds :
          /\ DOMAIN initTags[r] \subseteq DOMAIN remoteTags[r]
          /\ \A k \in DOMAIN remoteTags[r] \ StageKeys(r) :
                k \in DOMAIN initTags[r] /\ remoteTags[r][k] = initTags[r][k]
    /\ lastWrite # NoWrite
       => DOMAIN lastWrite.delta \subseteq StageKeys(lastWrite.resource)

\* A run in replace mode has changed env on v-1 and s-1, which carried an
\* owner tag that is in neither allowlist.
UntouchedTagsWitness ==
    /\ pc = "done" /\ ~dryrun /\ ~append
    /\ instance_tags_to_propagate = <<"env">>
    /\ volume_tags_to_propagate = <<"env">>
    /\ writeCalls["v-1"] = 1 /\ writeCalls["s-1"] = 1
    /\ "owner" \in DOMAIN initTags["v-1"] /\ "owner" \in DOMAIN initTags["s-1"]
    /\ initTags["v-1"]["env"] = "dev" /\ remoteTags["v-1"]["env"] = "prod"
    /\ remoteTags["v-1"]["owner"] = "me" /\ remoteTags["s-1"]["owner"] = "me"

\* C12: when a call of propagate_tags with dry-run off has returned with no
\* resource in PermanentFailure or ExhaustedFailure, the next call with the
\* same configuration makes no add_tags call and changes no remote tag, with
\* append on and with append off.
SecondRunWritesNothing ==
    (run = "second" /\ cleanSoFar /\ ~dryrun)
    => /\ \A r \in ResourceIds : writeCalls[r] = 0
       /\ lastWrite = NoWrite
       /\ remoteTags = initTags

\* The second call has gone through both stages in replace mode; the first
\* one had written instance_id on v-1 and env on s-1.
SecondRunWitness ==
    /\ run = "second" /\ cleanSoFar /\ pc = "done" /\ ~dryrun /\ ~append
    /\ outcome["v-1"] = "Success" /\ outcome["s-1"] = "Success"
    /\ "instance_id" \in DOMAIN remoteTags["v-1"]
    /\ "env" \in DOMAIN remoteTags["s-1"] /\ remoteTags["s-1"]["env"] = "prod"
    /\ \A r \in ResourceIds : writeCalls[r] = 0

\* The stage has made the call `op`.
Called(stage_name, op) ==
    \E i \in 1..Len(calls) : calls[i].stage = stage_name /\ calls[i].op = op

\* C13: once tag_volumes has listed the volumes of an explicit id list and
\* gone through the validation loop, the list holds exactly the requested ids
\* the provider returned, in the order they were given, whatever number of
\* ids was missing and wherever they stood, and no exception has ended the
\* stage.
VolumeFilterCleaned ==
    (requested.volumes # <<>> /\ Called("volumes", "get_all_volumes"))
    => /\ volumes_to_tag = SelectSeq(requested.volumes,
                                     LAMBDA id : id \in Range(volumes))
       /\ ~(pc = "crashed" /\ error.stage = "volumes")

\* C14: once tag_snapshots has listed the snapshots of an explicit id list,
\* the list holds exactly the requested ids the listing returned, and no
\* exception has ended the stage: it goes on to tag the returned snapshots.
SnapshotFilterValidated ==
    (requested.snapshots # <<>> /\ Called("snapshots", "get_all_snapshots"))
    => /\ snapshots_to_tag = SelectSeq(requested.snapshots,
                                       LAMBDA id : id \in Range(snapshots))
       /\ ~(pc = "crashed" /\ error.stage = "snapshots")

\* The calls stage_name has made, of any kind.
CallsOf(stage_name) == {i \in 1..Len(calls) : calls[i].stage = stage_name}

Count(stage_name, op) ==
    Cardinality({i \in CallsOf(stage_name) : calls[i].op = op})
ListOp(stage_name) ==
    IF stage_name = "volumes" THEN "get_all_volumes" ELSE "get_all_snapshots"
FetchOp(stage_name) ==
    IF stage_name = "volumes" THEN "get_all_instances" ELSE "get_all_volumes"
\* The working set of the stage and the parent each of its resources names.
WorkingSet(stage_name) ==
    IF stage_name = "volumes" THEN Range(volumes) ELSE Range(snapshots)
ParentOf(r) == IF r \in VolumeIds THEN attach[r].instance_id ELSE snapVolume[r]
\* The parent map of the stage, and what the provider holds for those parents.
ParentMap(stage_name) == IF stage_name = "volumes" THEN instances ELSE parents
ParentsFetched(stage_name, ids) ==
    IF stage_name = "volumes"
    THEN [i \in ids \cap InstanceIds |-> instanceTags[i]]
    ELSE [v \in ids \cap VolumeIds |-> remoteTags[v]]
\* The stage has listed its resources and is over, returned or left by an
\* exception.
StageOver(stage_name) ==
    /\ Called(stage_name, ListOp(stage_name))
    /\ \/ pc = "done"
       \/ pc = "crashed" /\ error.stage = stage_name
       \/ stage_name = "volumes" /\ CallsOf("snapshots") # {}

\* C16: a stage fetches its parents in one call: never more than one, made
\* before the first add_tags or sleep of the stage, for exactly the distinct
\* parent ids of the working set; a stage that is over has made one fetch if
\* its working set was non-empty and none if it was empty, and then it has
\* returned without a write; the parent map stays what that fetch returned
\* while the resources are tagged.
OneBulkFetch ==
    \A st \in {"volumes", "snapshots"} :
        /\ Count(st, FetchOp(st)) <= 1
        /\ \A i \in CallsOf(st) :
              /\ calls[i].op = FetchOp(st)
                 => /\ calls[i].ids = {ParentOf(r) : r \in WorkingSet(st)}
                    /\ ParentMap(st) = ParentsFetched(st, calls[i].ids)
              /\ calls[i].op \in {"add_tags", "sleep"}
                 => \E j \in CallsOf(st) : j < i /\ calls[j].op = FetchOp(st)
        /\ StageOver(st)
           => /\ Count(st, FetchOp(st)) = IF WorkingSet(st) # {} THEN 1 ELSE 0
              /\ WorkingSet(st) = {}
                 => /\ pc # "crashed"
                    /\ Count(st, "add_tags") = 0

\* C17: on every resource the sleep after the n-th call that ended in
\* BotoServerError lasts n - 1 seconds: none after the first, one second more
\* after each later one; and the count starts again with each resource.
BackoffGrows ==
    \A r \in ResourceIds :
        /\ \A n \in 1..Len(sleeps[r]) :
              /\ sleeps[r][n] = n - 1
              /\ n <= Len(results[r]) /\ results[r][n] = "BotoServerError"
              /\ n > 1 => sleeps[r][n] > sleeps[r][n - 1]
        /\ sleeps[r] # <<>> => sleeps[r][1] = 0

\* v-1 failed three times and v-2, the next volume, twice.
BackoffWitness ==
    /\ sleeps["v-1"] = <<0, 1, 2>> /\ outcome["v-1"] = "Success"
    /\ sleeps["v-2"] = <<0, 1>> /\ outcome["v-2"] = "Success"

\* C18: a sleep happens only between two calls on the same resource: a
\* resource the loop is done with has slept once less than it was called,
\* none sleeps after its fifth failed call, and one in ExhaustedFailure has
\* slept exactly 4 times.
SleepsOnlyBetweenAttempts ==
    \A r \in ResourceIds :
        /\ Len(sleeps[r]) <= 4
        /\ outcome[r] \in {"Success", "PermanentFailure", "ExhaustedFailure"}
           => Len(sleeps[r]) = attempts[r] - 1
        /\ outcome[r] = "ExhaustedFailure" => Len(sleeps[r]) = 4

BoundedTerminatingRun ==
    /\ pc = "done" \/ ENABLED Next
    /\ \A r \in ResourceIds : attempts[r] <= 5
    /\ \A st \in {"volumes", "snapshots"} :
          Count(st, "add_tags") <= 5 * Cardinality(WorkingSet(st))

=============================================================================
